---- MODULE Spec2Model ----
(***************************************************************************)
(* Model of wpca/empca.py: the EMPCA estimator (fit / fit_transform /      *)
(* transform / inverse_transform / reconstruct / fit_reconstruct) and the  *)
(* module-level function empca().                                          *)
(*                                                                         *)
(* Numbers.  Floating-point values are abstracted to scalars               *)
(*     [k |-> kind, dep |-> inputs the value was computed from, lvl]       *)
(* with kind "nan", "inf", "zero" (an exact 0.0) or "fin" (a finite value  *)
(* in general position, i.e. no accidental cancellation).  dep is the set  *)
(* of input entries (data cell and its value, weight cell and its value,   *)
(* seed or entropy draw) that flowed into the value; lvl counts the        *)
(* E-steps in its derivation.  The arithmetic below follows IEEE-754 on    *)
(* the kinds (0 * NaN = NaN, 0 / 0 = NaN, x / 0 = inf) and unions the      *)
(* dependencies, so two results are equal in the model only when they are  *)
(* the same kind of value computed from the same inputs.                   *)
(*                                                                         *)
(* Arrays.  ndarrays that the code writes in place or hands out live in    *)
(* heap, keyed by identity; names (locals, attributes, return values)      *)
(* hold references.  Arrays are 0-based functions as in the source.        *)
(***************************************************************************)
EXTENDS Integers, Sequences, FiniteSets, TLC

(* ------------------------------ bounds --------------------------------- *)
\* largest iteration budget (max_iter / niter) explored
MaxIter == 2

(* ------------------------------ scalars -------------------------------- *)
NaNv == [k |-> "nan", dep |-> {}, lvl |-> 0]
Infv == [k |-> "inf", dep |-> {}, lvl |-> 0]
Zerov == [k |-> "zero", dep |-> {}, lvl |-> 0]
Fin(D, l) == [k |-> "fin", dep |-> D, lvl |-> l]
Src(s, n, j, v) == [s |-> s, n |-> n, j |-> j, v |-> v]

Max(a, b) == IF a >= b THEN a ELSE b

IsFinite(a) == a.k \in {"zero", "fin"}

\* a * b
Mul(a, b) ==
    IF a.k = "nan" \/ b.k = "nan" THEN NaNv
    ELSE IF a.k = "inf" \/ b.k = "inf"
         THEN (IF a.k = "zero" \/ b.k = "zero" THEN NaNv ELSE Infv)
    ELSE IF a.k = "zero" \/ b.k = "zero" THEN Zerov
    ELSE Fin(a.dep \cup b.dep, Max(a.lvl, b.lvl))

\* a + b and a - b (the kinds and the dependencies of both are the same)
Add(a, b) ==
    IF a.k = "nan" \/ b.k = "nan" THEN NaNv
    ELSE IF a.k = "inf" \/ b.k = "inf" THEN Infv
    ELSE IF a.k = "zero" THEN b
    ELSE IF b.k = "zero" THEN a
    ELSE Fin(a.dep \cup b.dep, Max(a.lvl, b.lvl))

\* a / b
Div(a, b) ==
    IF a.k = "nan" \/ b.k = "nan" THEN NaNv
    ELSE IF b.k = "zero" THEN (IF a.k = "zero" THEN NaNv ELSE Infv)
    ELSE IF b.k = "inf" THEN (IF a.k = "inf" THEN NaNv ELSE Zerov)
    ELSE IF a.k \in {"inf", "zero"} THEN a
    ELSE Fin(a.dep \cup b.dep, Max(a.lvl, b.lvl))

\* sum of f[0], ..., f[n-1]
RECURSIVE SumTo(_, _)
SumTo(f, n) == IF n = 0 THEN Zerov ELSE Add(SumTo(f, n - 1), f[n - 1])

(* ------------------------------ arrays --------------------------------- *)
Absent == <<>>

Len1(v) == Cardinality(DOMAIN v)
NRows(M) == Cardinality(DOMAIN M)
NCols(M) == Cardinality(DOMAIN M[0])
Shape(M) == <<NRows(M), NCols(M)>>

Mat(n, d, f(_, _)) == [i \in 0..(n - 1) |-> [j \in 0..(d - 1) |-> f(i, j)]]

\* numpy broadcasting of two 2-d shapes
BroadcastOK(s, t) ==
    /\ (s[1] = t[1] \/ s[1] = 1 \/ t[1] = 1)
    /\ (s[2] = t[2] \/ s[2] = 1 \/ t[2] = 1)
BShape(s, t) == <<Max(s[1], t[1]), Max(s[2], t[2])>>
\* entry (i, j) of M stretched to a broadcast shape
BAt(M, i, j) == M[IF NRows(M) = 1 THEN 0 ELSE i][IF NCols(M) = 1 THEN 0 ELSE j]

\* A * B, A - B elementwise (shapes already known to broadcast)
BMul(A, B) ==
    LET s == BShape(Shape(A), Shape(B))
    IN Mat(s[1], s[2], LAMBDA i, j : Mul(BAt(A, i, j), BAt(B, i, j)))
BSub(A, B) ==
    LET s == BShape(Shape(A), Shape(B))
    IN Mat(s[1], s[2], LAMBDA i, j : Add(BAt(A, i, j), BAt(B, i, j)))

BAdd(A, B) ==
    LET s == BShape(Shape(A), Shape(B))
    IN Mat(s[1], s[2], LAMBDA i, j : Add(BAt(A, i, j), BAt(B, i, j)))

\* M.sum(0)
Sum0(M) == [j \in 0..(NCols(M) - 1) |->
              SumTo([i \in 0..(NRows(M) - 1) |-> M[i][j]], NRows(M))]

\* np.dot of two vectors of the same length
Dot(u, v) == SumTo([j \in 0..(Len1(u) - 1) |-> Mul(u[j], v[j])], Len1(u))

AllFinite(M) == \A i \in DOMAIN M : \A j \in DOMAIN M[i] : IsFinite(M[i][j])
AnyNonFinite(v) == \E j \in DOMAIN v : ~IsFinite(v[j])
UnionDeps(v) == UNION {v[j].dep : j \in DOMAIN v}
MaxLvl(v) == IF DOMAIN v = {} THEN 0
             ELSE CHOOSE l \in {v[j].lvl : j \in DOMAIN v} :
                      \A j \in DOMAIN v : v[j].lvl <= l


Row(v) == [i \in {0} |-> v]

(* -------------------- wpca.utils, modelled from the spec ---------------- *)
\* random_orthonormal(N, M, random_state): N orthonormal rows of length M
\* drawn from the generator; N <= M is a hard precondition.  rng is the
\* source the draw depends on (the seed, or fresh entropy without a seed).
random_orthonormal(N, M, rng) ==
    IF N > M THEN [err |-> TRUE, v |-> Absent]
    ELSE [err |-> FALSE, v |-> Mat(N, M, LAMBDA i, j : Fin({rng}, 0))]

\* orthonormalize(rows): Gram-Schmidt in row order; row a is made
\* orthogonal to rows 0..a-1 and normalized, so it depends on rows 0..a.
\* A non-finite entry in rows 0..a leaves row a without a direction (NaN).
orthonormalize(rows) ==
    [a \in DOMAIN rows |->
        LET upto == {b \in DOMAIN rows : b <= a}
            bad == \E b \in upto : AnyNonFinite(rows[b])
            deps == UNION {UnionDeps(rows[b]) : b \in upto}
            lvl == MaxLvl([b \in upto |-> Fin({}, MaxLvl(rows[b]))])
        IN [j \in DOMAIN rows[a] |-> IF bad THEN NaNv ELSE Fin(deps, lvl)]]

\* number of leading rows that are finite, hence orthonormal after
\* orthonormalize
OrthoPrefix(rows) ==
    Cardinality({a \in DOMAIN rows :
                    \A b \in DOMAIN rows : b <= a => ~AnyNonFinite(rows[b])})

\* one more E-step in the derivation of a coefficient
Bump(s) == IF s.k = "fin" THEN [s EXCEPT !.lvl = @ + 1] ELSE s

\* solve_weighted(B^T, x, w): minimise sum_j w_j^2 (x_j - sum_a c_a B[a][j])^2
\* by the normal equations  (B diag(w^2) B^T) c = B diag(w^2) x.
\* The k x k system is singular when fewer than k weights are non-zero;
\* sp is the solver's policy for that case ("raise", "zero", "undefined").
solve_weighted(B, x, w, sp) ==
    LET k == NRows(B)
        d == NCols(B)
        w2 == [j \in DOMAIN w |-> Mul(w[j], w[j])]
        wx == [j \in DOMAIN w |-> Mul(w2[j], x[j])]
        y == [a \in 0..(k - 1) |-> Dot(B[a], wx)]
        G == [a \in 0..(k - 1) |-> [b \in 0..(k - 1) |->
                 Dot([j \in 0..(d - 1) |-> Mul(B[a][j], w2[j])], B[b])]]
        used == {j \in DOMAIN w : w[j].k # "zero"}
        all == [a \in 0..(k * k + k - 1) |->
                   IF a < k THEN y[a] ELSE G[(a - k) \div k][(a - k) % k]]
        const(s) == [err |-> FALSE, v |-> [a \in 0..(k - 1) |-> s]]
    IN IF Len1(x) # d \/ Len1(w) # d THEN [err |-> TRUE, v |-> Absent]
       ELSE IF \E a \in 0..(k - 1) : AnyNonFinite(G[a]) THEN const(NaNv)
       ELSE IF Cardinality(used) < k
            THEN (IF sp = "raise" THEN [err |-> TRUE, v |-> Absent]
                  ELSE IF sp = "zero" THEN const(Zerov)
                  ELSE const(NaNv))
       ELSE IF AnyNonFinite(y) THEN const(NaNv)
       ELSE IF \A a \in 0..(k - 1) : y[a].k = "zero" THEN const(Zerov)
       ELSE const(Bump(Fin(UnionDeps(all), MaxLvl(all))))

(* ------------------------------ EMPCA ---------------------------------- *)
\* EMPCA._Estep: the coefficients of every sample in the basis eigvec.
\* weights = Absent is None.
Estep(data, weights, eigvec, sp) ==
    IF weights = Absent
    THEN IF NCols(data) # NCols(eigvec) THEN [err |-> TRUE, v |-> Absent]
         ELSE [err |-> FALSE,
               v |-> Mat(NRows(data), NRows(eigvec),
                         LAMBDA i, a : Bump(Dot(data[i], eigvec[a])))]
    ELSE LET n == NRows(data)
             sol == [i \in 0..(n - 1) |->
                        IF i \in DOMAIN weights
                        THEN solve_weighted(eigvec, data[i], weights[i], sp)
                        ELSE [err |-> TRUE, v |-> Absent]]
         IN IF \E i \in 0..(n - 1) : sol[i].err
            THEN [err |-> TRUE, v |-> Absent]
            ELSE [err |-> FALSE, v |-> [i \in 0..(n - 1) |-> sol[i].v]]

\* the new row i of EMPCA._Mstep (lines 30-32): the weighted least-squares
\* fit of the deflated data against coefficient column i.
\* weights = Absent is None (w2 = 1).
MstepRow(data, weights, eigvec, coeff, i) ==
    LET n == NRows(coeff)
        de == NCols(eigvec)
        \* np.dot(coeff[:, :i], eigvec[:i])
        recon == Mat(n, de, LAMBDA s, j :
                     SumTo([a \in 0..(i - 1) |-> Mul(coeff[s][a], eigvec[a][j])], i))
        okd == BroadcastOK(Shape(data), Shape(recon))
        d == BSub(data, recon)
        c == Mat(n, 1, LAMBDA s, j : coeff[s][i])
        one == Mat(1, 1, LAMBDA s, j : Fin({}, 0))
        w2 == IF weights = Absent THEN one
              ELSE Mat(NRows(weights), NCols(weights),
                       LAMBDA s, j : Mul(weights[s][j], weights[s][j]))
        okwd == BroadcastOK(Shape(w2), Shape(d))
        w2d == BMul(w2, d)
        okwc == BroadcastOK(Shape(w2), Shape(c))
        w2c == BMul(w2, c)
        \* np.dot(c.T, M) needs M to have n rows
        dotc(M) == [j \in 0..(NCols(M) - 1) |->
                       SumTo([s \in 0..(n - 1) |-> Mul(c[s][0], M[s][j])], n)]
        num == dotc(w2d)
        den == dotc(w2c)
        okq == Len1(num) = Len1(den) \/ Len1(num) = 1 \/ Len1(den) = 1
        ql == Max(Len1(num), Len1(den))
        q == [j \in 0..(ql - 1) |->
                 Div(num[IF Len1(num) = 1 THEN 0 ELSE j],
                     den[IF Len1(den) = 1 THEN 0 ELSE j])]
    IN IF ~okd \/ ~okwd \/ ~okwc THEN [err |-> TRUE, v |-> Absent]
       ELSE IF NRows(w2d) # n \/ NRows(w2c) # n THEN [err |-> TRUE, v |-> Absent]
       ELSE IF ~okq \/ (ql # de /\ ql # 1) THEN [err |-> TRUE, v |-> Absent]
       ELSE [err |-> FALSE,
             v |-> [j \in 0..(de - 1) |-> q[IF ql = 1 THEN 0 ELSE j]]]


\* np.dot(coeff.T, coeff).diagonal() / X.shape[0]  (line 76)
ExplainedVariance(coeff) ==
    [a \in 0..(NCols(coeff) - 1) |->
        SumTo([s \in 0..(NRows(coeff) - 1) |-> Mul(coeff[s][a], coeff[s][a])],
              NRows(coeff))]

\* X_c.var(0).sum()  (line 79): the unweighted variance of every column
TotalVariance(Xc) ==
    LET var(j) == LET col == [s \in 0..(NRows(Xc) - 1) |-> Xc[s][j]]
                  IN IF AnyNonFinite(col) THEN NaNv
                     ELSE IF NRows(Xc) = 1 \/ \A s \in DOMAIN col : col[s].k = "zero"
                          THEN Zerov
                     ELSE Fin(UnionDeps(col), MaxLvl(col))
    IN SumTo([j \in 0..(NCols(Xc) - 1) |-> var(j)], NCols(Xc))

\* variant: the projection of the data as given, the mean not removed
TransformUncentered(mean, comps, X, W, sp) ==
    Estep(X, W, comps, sp)
\* EMPCA.transform (line 123); mean and comps are the published attributes
TransformOp(mean, comps, X, W, sp) ==
    IF ~BroadcastOK(Shape(X), <<1, Len1(mean)>>) THEN [err |-> TRUE, v |-> Absent]
    ELSE Estep(BSub(X, Row(mean)), W, comps, sp)

\* EMPCA.inverse_transform (line 139)
InverseOp(mean, comps, Y) ==
    LET P == Mat(NRows(Y), NCols(comps), LAMBDA s, j :
                 SumTo([a \in 0..(NRows(comps) - 1) |-> Mul(Y[s][a], comps[a][j])],
                       NRows(comps)))
    IN IF NCols(Y) # NRows(comps) \/ ~BroadcastOK(<<1, Len1(mean)>>, Shape(P))
       THEN [err |-> TRUE, v |-> Absent]
       ELSE [err |-> FALSE, v |-> BAdd(Row(mean), P)]

\* EMPCA.reconstruct (line 160)
ReconstructOp(mean, comps, X, W, sp) ==
    LET t == TransformOp(mean, comps, X, W, sp)
    IN IF t.err THEN t ELSE InverseOp(mean, comps, t.v)

(* ------------------------------- state --------------------------------- *)
VARIABLES
    n_components,   \* EMPCA.n_components (nvec of empca)
    max_iter,       \* EMPCA.max_iter (niter of empca)
    random_state,   \* EMPCA.random_state: [some, v]
    policy,         \* what solve_weighted does with a singular system
    mode,           \* "single": one data set; "pair": the caller changes X between calls
    heap,           \* array identity -> contents (Absent: no such array, or None)
    est,            \* the estimator's fitted attributes
    op,             \* the call in progress, or the last one
    pc,             \* where the call in progress stands
    loc,            \* its local variables
    ret,            \* what the last call returned or that it raised
    steps,          \* history: the E- and M-steps of the current fit
    mlog,           \* history: the basis writes of the current M-step
    lastFit,        \* history: inputs and outputs of the last fit that returned
    memo            \* history: the same for the first fit that returned (pair mode)

vars == <<n_components, max_iter, random_state, policy, mode, heap, est, op, pc,
          loc, ret, steps, mlog, lastFit, memo>>
params == <<n_components, max_iter, random_state, policy, mode>>

NoRef == "none"
Pool == <<"a1", "a2", "a3", "a4", "a5", "a6", "a7">>
Ids == {"X", "W"} \cup {Pool[i] : i \in 1..Len(Pool)}

\* a new array: the first identity not in use
Alloc(h) == Pool[CHOOSE i \in 1..Len(Pool) :
                    /\ h[Pool[i]] = Absent
                    /\ \A j \in 1..(i - 1) : h[Pool[j]] # Absent]

\* arrays nobody refers to any more are gone
GC(h, live) == [id \in Ids |-> IF id \in live \cup {"X", "W"} THEN h[id] ELSE Absent]

NoLoc == [XW |-> NoRef, Xc |-> Absent, eigvec |-> NoRef, coeff |-> NoRef,
          k |-> 0, i |-> 0, ortho |-> 0, ver |-> 0, readVer |-> 0]
NoRet == [status |-> "none", kind |-> "none", a |-> NoRef, b |-> NoRef]
RaisedRet == [status |-> "raised", kind |-> "none", a |-> NoRef, b |-> NoRef]
SelfRet == [status |-> "returned", kind |-> "self", a |-> NoRef, b |-> NoRef]
ArrayRet(r) == [status |-> "returned", kind |-> "array", a |-> r, b |-> NoRef]
PairRet(r, q) == [status |-> "returned", kind |-> "pair", a |-> r, b |-> q]

Unfitted == [mean_ |-> Absent, components_ |-> NoRef,
             explained_variance_ |-> Absent, explained_variance_ratio_ |-> Absent]
NoFit == [valid |-> FALSE, X |-> Absent, W |-> Absent, mean |-> Absent,
          comps |-> Absent, coeff |-> Absent, ev |-> Absent, evr |-> Absent,
          other |-> FALSE]

NoneV == [some |-> FALSE, v |-> 0]
SomeV(v) == [some |-> TRUE, v |-> v]

(* ------------------------------ inputs --------------------------------- *)
XCell(i, j, v) == Fin({Src("x", i, j, v)}, 0)
WCell(i, j, v) == IF v = 0 THEN Zerov ELSE Fin({Src("w", i, j, v)}, 0)

\* 2 x 2 data with entry (0, 0) set to c
XWith(c) == Mat(2, 2, LAMBDA i, j : IF i = 0 /\ j = 0 THEN c ELSE XCell(i, j, 1))
\* entry (0, 0) is one of two finite values, or NaN
XPair == {XWith(c) : c \in {XCell(0, 0, 1), XCell(0, 0, 2), NaNv}}
\* entry (0, 0) finite or NaN, or one sample of two features
XData == {XWith(c) : c \in {XCell(0, 0, 1), NaNv}} \cup
         {Mat(1, 2, LAMBDA i, j : XCell(i, j, 1))}

\* None, or 2 x 2 unit weights with entry (0, 0) zero or one
WPair == {Absent} \cup
         {Mat(2, 2, LAMBDA i, j : WCell(i, j, IF i = 0 /\ j = 0 THEN a ELSE 1)) : a \in {0, 1}}
\* None, 2 x 2 weights whose first row varies over {0, 1}, or 1 x 2 unit weights
WData == {Absent} \cup
         {Mat(2, 2, LAMBDA i, j : WCell(i, j, IF i = 0 THEN (IF j = 0 THEN a ELSE b) ELSE 1)) :
             a \in {0, 1}, b \in {0, 1}} \cup
         {Mat(1, 2, LAMBDA i, j : WCell(i, j, 1))}

Components == {1, 2, 3}
Policies == {"raise", "zero", "undefined"}
Entropy == {0, 1}

Init ==
    /\ n_components \in Components
    /\ max_iter \in 0..MaxIter
    /\ random_state \in {NoneV, SomeV(0)}
    /\ policy \in Policies
    /\ mode = "single"
    /\ \E X \in XData, W \in WData :
          heap = [id \in Ids |-> IF id = "X" THEN X ELSE IF id = "W" THEN W ELSE Absent]
    /\ est = Unfitted
    /\ op = "none"
    /\ pc = "idle"
    /\ loc = NoLoc
    /\ ret = NoRet
    /\ steps = <<>>
    /\ mlog = <<>>
    /\ lastFit = NoFit
    /\ memo = NoFit

\* the call raises: the exception leaves through the caller, locals die
Raise(h, e) ==
    /\ pc' = "idle"
    /\ ret' = RaisedRet
    /\ loc' = NoLoc
    /\ est' = e
    /\ heap' = GC(h, {e.components_})


(* ------------------------ EMPCA.fit_transform -------------------------- *)
\* a call of one of the fitting methods begins; the caller lets go of what
\* the previous call returned
Begin(o) ==
    /\ pc = "idle"
    /\ op' = o
    /\ pc' = "mean"
    /\ loc' = NoLoc
    /\ ret' = NoRet
    /\ heap' = GC(heap, {est.components_})
    /\ steps' = <<>>
    /\ mlog' = <<>>
    /\ UNCHANGED <<params, est, lastFit, memo>>

Fit == Begin("fit")
FitTransform == Begin("fit_transform")
FitReconstruct == Begin("fit_reconstruct")

\* variant: the product is written over the data (X *= weights)
ProductInPlace(fresh) == "X"
\* the array that X * weights is written to (line 59): a new one
ProductArray(fresh) == fresh

\* lines 56-64: the (weighted) mean, published at once, and the centred data
FitMean ==
    /\ pc = "mean"
    /\ LET X == heap["X"]
           W == heap["W"]
       IN IF W = Absent
          THEN \* self.mean_ = X.mean(0)
               LET mean == Sum0(X)
               IN /\ est' = [est EXCEPT !.mean_ = mean]
                  /\ loc' = [loc EXCEPT !.Xc = BSub(X, Row(mean))]
                  /\ pc' = "init"
                  /\ UNCHANGED <<heap, ret>>
          ELSE IF ~BroadcastOK(Shape(X), Shape(W))
          THEN Raise(heap, est)                        \* line 59: ValueError
          ELSE LET xw == ProductArray(Alloc(heap))
                   h1 == [heap EXCEPT ![xw] = BMul(X, W)]
               IN IF Shape(W) # Shape(h1[xw])
                  THEN Raise(h1, est)                  \* line 61: IndexError
                  ELSE LET XW == [i \in DOMAIN h1[xw] |-> [j \in DOMAIN h1[xw][i] |->
                                     IF W[i][j].k = "zero" THEN Zerov ELSE h1[xw][i][j]]]
                           h2 == [h1 EXCEPT ![xw] = XW]
                           sw == Sum0(W)
                           sx == Sum0(XW)
                           mean == [j \in DOMAIN sx |-> Div(sx[j], sw[j])]
                           e2 == [est EXCEPT !.mean_ = mean]
                       IN IF ~BroadcastOK(Shape(X), <<1, Len1(mean)>>)
                          THEN Raise(h2, e2)           \* line 64: ValueError
                          ELSE /\ est' = e2
                               /\ heap' = h2
                               /\ loc' = [loc EXCEPT !.XW = xw,
                                                     !.Xc = BSub(h2["X"], Row(mean))]
                               /\ pc' = "init"
                               /\ UNCHANGED ret
    /\ UNCHANGED <<params, op, steps, mlog, lastFit, memo>>

\* what the generator is seeded with: random_state, or fresh entropy e
Rng(e) == IF random_state.some THEN Src("seed", 0, 0, random_state.v)
          ELSE Src("entropy", 0, 0, e)

\* variant: a fitted estimator iterates on its published array
BasisReused(fresh) ==
    IF est.components_ # NoRef THEN est.components_ ELSE fresh
\* the array the basis of this fit lives in (line 66): a new one
BasisArray(fresh) == fresh

\* variant: a fitted estimator starts from its published rows
WarmStartBasis(drawn) ==
    IF est.components_ # NoRef THEN heap[est.components_] ELSE drawn
\* the rows the iteration starts from (line 66): the random draw
InitialBasis(drawn) == drawn

\* lines 66-67: eigvec = random_orthonormal(n_components, X.shape[1])
FitInit ==
    /\ pc = "init"
    /\ \E e \in Entropy :
          LET r == random_orthonormal(n_components, NCols(heap["X"]), Rng(e))
              ev == BasisArray(Alloc(heap))
          IN IF r.err THEN Raise(heap, est)
             ELSE /\ heap' = [heap EXCEPT ![ev] = InitialBasis(r.v)]
                  /\ loc' = [loc EXCEPT !.eigvec = ev, !.k = 0, !.ver = 0,
                                        !.ortho = OrthoPrefix(r.v)]
                  /\ pc' = "loop"
                  /\ UNCHANGED <<est, ret>>
    /\ UNCHANGED <<params, op, steps, mlog, lastFit, memo>>

\* variant: one pass too many
LoopRunsOnceMore(k) == k <= max_iter
\* for k in range(self.max_iter)  (line 70)
LoopContinues(k) == k < max_iter

\* the E-step of the class: coeff is bound to a new array
ClassEstep(next) ==
    LET r == Estep(loc.Xc, heap["W"], heap[loc.eigvec], policy)
        c == Alloc(heap)
    IN IF r.err THEN Raise(heap, est) /\ UNCHANGED <<steps, mlog>>
       ELSE /\ heap' = [id \in Ids |-> IF id = c THEN r.v
                                       ELSE IF id = loc.coeff THEN Absent
                                       ELSE heap[id]]
            /\ loc' = [loc EXCEPT !.coeff = c, !.i = 0, !.readVer = loc.ver]
            /\ pc' = next
            /\ steps' = Append(steps, "E")
            /\ mlog' = <<>>
            /\ UNCHANGED <<est, ret>>

\* line 71: coeff = self._Estep(X_c, weights, eigvec)
FitEstep ==
    /\ pc = "loop"
    /\ LoopContinues(loc.k)
    /\ ClassEstep("mrow")
    /\ UNCHANGED <<params, op, lastFit, memo>>

\* the rows orthonormalize is applied to after row i: eigvec[:i + 1]
PrefixRows(i) == 0..i

\* lines 30-32 (and 182-184): eigvec[i] = ..., written in place
MstepUpdate(data, W, next) ==
    LET r == MstepRow(data, W, heap[loc.eigvec], heap[loc.coeff], loc.i)
    IN IF r.err THEN Raise(heap, est) /\ UNCHANGED <<steps, mlog>>
       ELSE /\ heap' = [heap EXCEPT ![loc.eigvec][loc.i] = r.v]
            /\ loc' = [loc EXCEPT !.ver = @ + 1,
                                  !.ortho = IF loc.i < @ THEN loc.i ELSE @]
            /\ pc' = next
            /\ mlog' = Append(mlog, <<"update", loc.i>>)
            /\ UNCHANGED <<est, ret, steps>>

\* line 36 (and 188): eigvec[:i + 1] = orthonormalize(eigvec[:i + 1]) in
\* place, then the next row, or the end of the M-step
MstepOrtho(nextRow, nextLoop) ==
    LET E == heap[loc.eigvec]
        P == PrefixRows(loc.i) \cap DOMAIN E
        o == orthonormalize([a \in P |-> E[a]])
        E2 == [a \in DOMAIN E |-> IF a \in P THEN o[a] ELSE E[a]]
        last == loc.i + 1 >= NRows(E)
    IN /\ heap' = [heap EXCEPT ![loc.eigvec] = E2]
       /\ loc' = [loc EXCEPT !.ver = @ + 1,
                             !.ortho = IF P = 0..loc.i THEN OrthoPrefix(o) ELSE @,
                             !.i = IF last THEN 0 ELSE @ + 1,
                             !.k = IF last THEN @ + 1 ELSE @]
       /\ pc' = IF last THEN nextLoop ELSE nextRow
       /\ mlog' = Append(mlog, <<"ortho", loc.i>>)
       /\ steps' = IF last THEN Append(steps, "M") ELSE steps
       /\ UNCHANGED <<est, ret>>

FitMstepUpdate ==
    /\ pc = "mrow"
    /\ MstepUpdate(loc.Xc, heap["W"], "mortho")
    /\ UNCHANGED <<params, op, lastFit, memo>>

FitMstepOrtho ==
    /\ pc = "mortho"
    /\ MstepOrtho("mrow", "loop")
    /\ UNCHANGED <<params, op, lastFit, memo>>

\* line 73: the E-step after the loop
FitFinalEstep ==
    /\ pc = "loop"
    /\ ~LoopContinues(loc.k)
    /\ ClassEstep("publish")
    /\ UNCHANGED <<params, op, lastFit, memo>>


FitRecord(coeff, e, h) ==
    [valid |-> TRUE, X |-> h["X"], W |-> h["W"], mean |-> e.mean_,
     comps |-> h[e.components_], coeff |-> coeff,
     ev |-> e.explained_variance_, evr |-> e.explained_variance_ratio_,
     other |-> lastFit.valid /\ (lastFit.other \/ lastFit.X # h["X"])]

\* lines 75-80: publish components_ and the variances, return coeff
\* (fit drops it and returns self; fit_reconstruct goes on to line 165)
FitPublish ==
    /\ pc = "publish"
    /\ LET coeff == heap[loc.coeff]
           ev == ExplainedVariance(coeff)
           tv == TotalVariance(loc.Xc)
           e2 == [est EXCEPT !.components_ = loc.eigvec,
                             !.explained_variance_ = ev,
                             !.explained_variance_ratio_ =
                                 [a \in DOMAIN ev |-> Div(ev[a], tv)]]
           rec == FitRecord(coeff, e2, heap)
       IN /\ est' = e2
          /\ lastFit' = rec
          /\ memo' = IF mode = "pair" /\ ~memo.valid THEN rec ELSE memo
          /\ IF op = "fit_reconstruct"
             THEN /\ pc' = "inverse"
                  /\ UNCHANGED <<heap, loc, ret>>
             ELSE /\ pc' = "idle"
                  /\ loc' = NoLoc
                  /\ ret' = IF op = "fit" THEN SelfRet ELSE ArrayRet(loc.coeff)
                  /\ heap' = GC(heap, {loc.eigvec} \cup
                                      (IF op = "fit" THEN {} ELSE {loc.coeff}))
    /\ UNCHANGED <<params, op, steps, mlog>>

\* line 165: return self.inverse_transform(coeff)
FitReconstructInverse ==
    /\ pc = "inverse"
    /\ LET r == InverseOp(est.mean_, heap[est.components_], heap[loc.coeff])
           z == Alloc(heap)
       IN IF r.err THEN Raise(heap, est)
          ELSE /\ pc' = "idle"
               /\ loc' = NoLoc
               /\ ret' = ArrayRet(z)
               /\ heap' = GC([heap EXCEPT ![z] = r.v], {est.components_, z})
               /\ est' = est
    /\ UNCHANGED <<params, op, steps, mlog, lastFit, memo>>

(* ------------- transform, inverse_transform, reconstruct --------------- *)
\* an unfitted estimator has no mean_ / components_: AttributeError
Fitted == est.mean_ # Absent /\ est.components_ # NoRef

\* a call that runs in one step and returns a new array or raises
Atomic(o, r) ==
    /\ op' = o
    /\ LET z == Alloc(heap)
       IN IF r.err THEN Raise(heap, est)
          ELSE /\ pc' = "idle"
               /\ loc' = NoLoc
               /\ ret' = ArrayRet(z)
               /\ heap' = GC([heap EXCEPT ![z] = r.v], {est.components_, z})
               /\ est' = est
    /\ UNCHANGED <<params, steps, mlog, lastFit, memo>>

Failed == [err |-> TRUE, v |-> Absent]

\* line 123
Transform ==
    /\ pc = "idle"
    /\ Atomic("transform",
              IF ~Fitted THEN Failed
              ELSE TransformOp(est.mean_, heap[est.components_],
                               heap["X"], heap["W"], policy))

\* line 139, applied to the array the previous call returned
InverseTransform ==
    /\ pc = "idle"
    /\ ret.kind = "array"
    /\ Atomic("inverse_transform",
              IF ~Fitted THEN Failed
              ELSE InverseOp(est.mean_, heap[est.components_], heap[ret.a]))

\* line 160
Reconstruct ==
    /\ pc = "idle"
    /\ Atomic("reconstruct",
              IF ~Fitted THEN Failed
              ELSE ReconstructOp(est.mean_, heap[est.components_],
                                 heap["X"], heap["W"], policy))

(* ------------------------------- empca --------------------------------- *)
\* lines 209-210: the two assertions (weights = None has no shape)
EmpcaValid(data, weights, nvec) ==
    /\ weights # Absent
    /\ Shape(data) = Shape(weights)
    /\ nvec <= NCols(data)

\* lines 209-213: check, draw the basis, allocate coeff
Empca ==
    /\ pc = "idle"
    /\ op' = "empca"
    /\ steps' = <<>>
    /\ mlog' = <<>>
    /\ \E e \in Entropy :
          LET h0 == GC(heap, {est.components_})
              data == heap["X"]
              ev == Alloc(h0)
              h1 == [h0 EXCEPT ![ev] =
                        random_orthonormal(n_components, NCols(data), Rng(e)).v]
              c == Alloc(h1)
          IN IF ~EmpcaValid(data, heap["W"], n_components) THEN Raise(h0, est)
             ELSE /\ heap' = [h1 EXCEPT ![c] = Mat(NRows(data), n_components,
                                                  LAMBDA i, a : Zerov)]
                  /\ loc' = [NoLoc EXCEPT !.eigvec = ev, !.coeff = c,
                                          !.ortho = n_components]
                  /\ pc' = "e_loop"
                  /\ ret' = NoRet
                  /\ est' = est
    /\ UNCHANGED <<params, lastFit, memo>>

\* for k in range(niter)  (line 215)
EmpcaLoopContinues(k) == k < max_iter

\* _Estep (lines 171-173): coeff[i] = solve_weighted(...), written in place
ModuleEstep(next) ==
    LET r == Estep(heap["X"], heap["W"], heap[loc.eigvec], policy)
    IN IF r.err THEN Raise(heap, est) /\ UNCHANGED <<steps, mlog>>
       ELSE /\ heap' = [heap EXCEPT ![loc.coeff] = r.v]
            /\ loc' = [loc EXCEPT !.i = 0, !.readVer = loc.ver]
            /\ pc' = next
            /\ steps' = Append(steps, "E")
            /\ mlog' = <<>>
            /\ UNCHANGED <<est, ret>>

\* line 216
EmpcaEstep ==
    /\ pc = "e_loop"
    /\ EmpcaLoopContinues(loc.k)
    /\ ModuleEstep("e_mrow")
    /\ UNCHANGED <<params, op, lastFit, memo>>

\* line 217: _Mstep, lines 182-184
EmpcaMstepUpdate ==
    /\ pc = "e_mrow"
    /\ MstepUpdate(heap["X"], heap["W"], "e_mortho")
    /\ UNCHANGED <<params, op, lastFit, memo>>

\* line 217: _Mstep, line 188
EmpcaMstepOrtho ==
    /\ pc = "e_mortho"
    /\ MstepOrtho("e_mrow", "e_loop")
    /\ UNCHANGED <<params, op, lastFit, memo>>

\* line 218
EmpcaFinalEstep ==
    /\ pc = "e_loop"
    /\ ~EmpcaLoopContinues(loc.k)
    /\ ModuleEstep("e_return")
    /\ UNCHANGED <<params, op, lastFit, memo>>

\* line 220: return eigvec, coeff
EmpcaReturn ==
    /\ pc = "e_return"
    /\ pc' = "idle"
    /\ ret' = PairRet(loc.eigvec, loc.coeff)
    /\ loc' = NoLoc
    /\ heap' = GC(heap, {est.components_, loc.eigvec, loc.coeff})
    /\ UNCHANGED <<params, est, op, steps, mlog, lastFit, memo>>

(* ------------------------------ caller --------------------------------- *)
\* between two calls the caller puts other values into its data array
NewData ==
    /\ mode = "pair"
    /\ pc = "idle"
    /\ \E X2 \in XPair \ {heap["X"]} : heap' = [heap EXCEPT !["X"] = X2]
    /\ UNCHANGED <<params, est, op, pc, loc, ret, steps, mlog, lastFit, memo>>

Next ==
    \/ Fit \/ FitTransform \/ FitReconstruct
    \/ FitMean \/ FitInit \/ FitEstep \/ FitMstepUpdate \/ FitMstepOrtho
    \/ FitFinalEstep \/ FitPublish \/ FitReconstructInverse
    \/ Transform \/ InverseTransform \/ Reconstruct
    \/ Empca \/ EmpcaEstep \/ EmpcaMstepUpdate \/ EmpcaMstepOrtho
    \/ EmpcaFinalEstep \/ EmpcaReturn

Spec == Init /\ [][Next]_vars

\* two fits side by side: the data entry (0, 0) may change between calls
InitPair ==
    /\ n_components \in {1, 2}
    /\ max_iter \in 0..MaxIter
    /\ random_state \in {NoneV, SomeV(0)}
    /\ policy \in Policies
    /\ mode = "pair"
    /\ \E X \in XPair, W \in WPair :
          heap = [id \in Ids |-> IF id = "X" THEN X ELSE IF id = "W" THEN W ELSE Absent]
    /\ est = Unfitted
    /\ op = "none"
    /\ pc = "idle"
    /\ loc = NoLoc
    /\ ret = NoRet
    /\ steps = <<>>
    /\ mlog = <<>>
    /\ lastFit = NoFit
    /\ memo = NoFit

NextPair ==
    \/ FitTransform
    \/ FitMean \/ FitInit \/ FitEstep \/ FitMstepUpdate \/ FitMstepOrtho
    \/ FitFinalEstep \/ FitPublish
    \/ NewData

SpecPair == InitPair /\ [][NextPair]_vars

(* ------------------------------ claims --------------------------------- *)
FitOps == {"fit", "fit_transform", "fit_reconstruct"}
AllFits == FitOps \cup {"empca"}
Returned == pc = "idle" /\ ret.status = "returned"
\* between two iterations, or after the last E-step
AtBoundary == pc \in {"loop", "e_loop", "publish", "e_return"}
AtReturn == pc \in {"publish", "e_return"}

Alternates(s) == \A i \in 1..Len(s) : s[i] = IF i % 2 = 1 THEN "E" ELSE "M"

\* C1: a fit with budget N = max_iter runs E, M, E, M, ..., E: the steps
\* alternate starting with an E-step and never exceed 2N + 1; a fit that
\* reaches its return has run exactly N + 1 E-steps and N M-steps, the last
\* step being an E-step; and the coefficients it returns are the E-step of
\* the basis it returns (the basis was not written since that E-step).
C1_IterationStructure ==
    op \in AllFits =>
        /\ Alternates(steps)
        /\ Len(steps) <= 2 * max_iter + 1
        /\ (pc \in {"publish", "inverse", "e_return"} \/ Returned)
              => Len(steps) = 2 * max_iter + 1
        /\ AtReturn =>
              /\ loc.readVer = loc.ver
              /\ heap[loc.coeff] =
                    Estep(IF op = "empca" THEN heap["X"] ELSE loc.Xc,
                          heap["W"], heap[loc.eigvec], policy).v

C1_Witness ==
    /\ pc = "publish"
    /\ max_iter = MaxIter
    /\ n_components = 2
    /\ Len(steps) = 2 * MaxIter + 1

\* C2: on an estimator whose last fit was on the caller's X and W,
\* transform(X, W) returns the coefficient matrix that fit returned.
C2_TransformIsFitTransform ==
    (/\ Returned
     /\ op = "transform"
     /\ lastFit.valid
     /\ lastFit.X = heap["X"] /\ lastFit.W = heap["W"]
     /\ est.mean_ = lastFit.mean /\ heap[est.components_] = lastFit.comps)
        => heap[ret.a] = lastFit.coeff

C2_Witness ==
    /\ Returned
    /\ op = "transform"
    /\ lastFit.valid
    /\ max_iter >= 1
    /\ heap["W"] # Absent
    /\ AllFinite(heap[ret.a])

\* X1 and X2 differ at most where the weight is zero
AgreeOffMask(X1, X2, W) ==
    \A i \in DOMAIN W : \A j \in DOMAIN W[i] :
        W[i][j].k # "zero" => X1[i][j] = X2[i][j]

\* C3: two fits with the same weights, on data that differ only at
\* zero-weight entries (NaN included), give the same mean and basis, and
\* transform and reconstruct give the same on both.
C3_ZeroWeightEntriesIgnored ==
    (/\ pc = "idle"
     /\ random_state.some
     /\ memo.valid /\ lastFit.valid
     /\ memo.W # Absent /\ lastFit.W = memo.W
     /\ AgreeOffMask(memo.X, lastFit.X, memo.W))
        => /\ lastFit.mean = memo.mean
           /\ lastFit.comps = memo.comps
           /\ TransformOp(lastFit.mean, lastFit.comps, lastFit.X, lastFit.W, policy)
                 = TransformOp(memo.mean, memo.comps, memo.X, memo.W, policy)
           /\ ReconstructOp(lastFit.mean, lastFit.comps, lastFit.X, lastFit.W, policy)
                 = ReconstructOp(memo.mean, memo.comps, memo.X, memo.W, policy)

\* the weights have another shape than the data, or k exceeds the features
InvalidInputs ==
    \/ heap["W"] # Absent /\ Shape(heap["W"]) # Shape(heap["X"])
    \/ n_components > NCols(heap["X"])

\* C4: a fit on invalid inputs fails before the first E-step: it never
\* executes a step and never returns.
C4_RejectedBeforeIteration ==
    (InvalidInputs /\ op \in AllFits) => (steps = <<>> /\ ~Returned)

\* C5: between calls the four fitted attributes are all absent or are all
\* those of the last fit that returned.
C5_NoPartialState ==
    pc = "idle" =>
        \/ est = Unfitted
        \/ /\ lastFit.valid
           /\ est.components_ # NoRef
           /\ est.mean_ = lastFit.mean
           /\ heap[est.components_] = lastFit.comps
           /\ est.explained_variance_ = lastFit.ev
           /\ est.explained_variance_ratio_ = lastFit.evr

\* some sample has only zero weights
DegenerateSample(W) ==
    W # Absent /\ \E i \in DOMAIN W : \A j \in DOMAIN W[i] : W[i][j].k = "zero"

\* C6: with finite data, matching shapes and k within the features, a
\* sample whose weights are all zero does not make the fit raise, and the
\* mean and the basis are finite at every iteration boundary.
C6_DegenerateSampleHandled ==
    (/\ op \in AllFits
     /\ ~InvalidInputs
     /\ AllFinite(heap["X"])
     /\ DegenerateSample(heap["W"]))
        => /\ ret.status # "raised"
           /\ (AtBoundary /\ loc.eigvec # NoRef) => AllFinite(heap[loc.eigvec])
           /\ est.mean_ # Absent => ~AnyNonFinite(est.mean_)

SameOutputs(f, g) ==
    /\ f.mean = g.mean /\ f.comps = g.comps /\ f.coeff = g.coeff
    /\ f.ev = g.ev /\ f.evr = g.evr

C8_InputsReadOnly ==
    [][/\ heap'["X"] = heap["X"]
       /\ heap'["W"] = heap["W"]
       /\ est'.components_ \notin {"X", "W"}
       /\ ret'.a \notin {"X", "W"}
       /\ ret'.b \notin {"X", "W"}]_vars

C8_Witness ==
    /\ pc = "init"
    /\ loc.XW # NoRef
    /\ heap[loc.XW][0][0].k = "zero"
    /\ heap["X"][0][0].k # "zero"

\* the inputs the spec admits: matching shapes, k within the features,
\* non-finite data only at zero weight, no sample with a singular system
ValidInputs ==
    LET X == heap["X"]
        W == heap["W"]
    IN /\ ~InvalidInputs
       /\ W = Absent => AllFinite(X)
       /\ W # Absent =>
             \A i \in DOMAIN X :
                /\ \A j \in DOMAIN X[i] : IsFinite(X[i][j]) \/ W[i][j].k = "zero"
                /\ Cardinality({j \in DOMAIN W[i] : W[i][j].k # "zero"}) >= n_components

\* C9: within an M-step the basis writes are update(0), ortho(0..0),
\* update(1), ortho(0..1), ... in this order; an M-step ends with the
\* orthonormalization of all k rows; the rows before row i are orthonormal
\* when row i is updated, and the basis is orthonormal at every iteration
\* boundary.
C9_MstepRowOrder ==
    (op \in AllFits /\ ValidInputs /\ loc.eigvec # NoRef) =>
        LET k == NRows(heap[loc.eigvec])
        IN /\ \A m \in 1..Len(mlog) :
                 mlog[m] = <<IF m % 2 = 1 THEN "update" ELSE "ortho", (m - 1) \div 2>>
           /\ (AtBoundary /\ steps # <<>> /\ steps[Len(steps)] = "M")
                 => Len(mlog) = 2 * k
           /\ pc \in {"mrow", "e_mrow"} => loc.ortho >= loc.i
           /\ AtBoundary => loc.ortho = k

\* C10: the basis of a fit is written only by its M-step; a published
\* basis is never written, and it stays published until a later fit, which
\* works on another array, publishes its own.
C10_BasisFrame ==
    [][/\ (loc.eigvec # NoRef /\ loc'.eigvec = loc.eigvec
              /\ heap'[loc.eigvec] # heap[loc.eigvec])
             => pc \in {"mrow", "mortho", "e_mrow", "e_mortho"}
       /\ est.components_ # NoRef =>
             /\ pc # "inverse" => loc.eigvec # est.components_
             /\ IF pc = "publish"
                THEN est'.components_ = loc.eigvec
                ELSE /\ est'.components_ = est.components_
                     /\ heap'[est.components_] = heap[est.components_]]_vars

C10_Witness ==
    /\ est.components_ # NoRef
    /\ op \in FitOps
    /\ pc = "mortho"
    /\ loc.eigvec # est.components_
    /\ max_iter >= 1
====
